---- MODULE Spec2Model ----
(***************************************************************************)
(* Model of the AstroVed Vedic chart service (src/app.py): the longitude   *)
(* classifiers, the tithi calculation, the Vimshottari dasha engine        *)
(* (get_dasha_details) and the full_vedic_chart request handler.           *)
(*                                                                         *)
(* Units.  Longitudes are integers counting 1/300 of a degree, so that the *)
(* nakshatra width 360/27 deg (4000), its quarter (1000), a sign (9000), a *)
(* tithi (3600) and a hundredth of a degree (3) are all whole numbers.     *)
(* Timestamps (Julian days in the code) are integers counting 1/14400 of   *)
(* the year length 365.242189 days used by the code, so that every         *)
(* Mahadasha, Antardasha and Pratyantardasha duration is a whole number.   *)
(* Floating-point rounding is not modelled, with one exception: the double *)
(* 360.0/27 is 13.333333333333334, slightly MORE than 40/3, and Python's   *)
(* float % is exact, so for a longitude that is a double lying exactly on  *)
(* a nakshatra boundary (40, 80, ... degrees) lon % deg_per_nak is one     *)
(* whole width minus a few 1e-16, not 0 (see PyModNak).                    *)
(***************************************************************************)
EXTENDS Integers, Sequences, FiniteSets, TLC

VARIABLES
    pc,          \* position of the full_vedic_chart handler
    clock,       \* the wall clock read by datetime.utcnow()
    ticks,       \* how many times the clock has advanced
    tz_str,      \* data.timezone of the request being served
    jd_birth,    \* full_vedic_chart: jd_birth
    moon_lon,    \* full_vedic_chart: planets["Moon"]
    jd_now,      \* full_vedic_chart: jd_now (line 452)
    now_jd,      \* get_dasha_details: now_jd (line 111)
    lord_idx,    \* get_dasha_details: lord_idx
    balance,     \* get_dasha_details: balance, in time units
    jd,          \* get_dasha_details: the walk's cursor
    cl,          \* get_dasha_details: the walk's lord counter
    dasha_info,  \* the dictionary get_dasha_details returned
    failure,     \* which kind of failure ended the request, "none" so far
    result,      \* what full_vedic_chart returned
    responses,   \* every <<failure kind, result>> the service has returned
    fn,          \* pure-function harness: the function applied
    args,        \* pure-function harness: its arguments
    ret          \* pure-function harness: what it returned

vars == <<pc, clock, ticks, tz_str, jd_birth, moon_lon, jd_now, now_jd, lord_idx,
          balance, jd, cl, dasha_info, failure, result, responses,
          fn, args, ret>>

----------------------------------------------------------------------------
(* Units and program constants *)

Degree == 300
Circle == 360 * Degree
Year == 14400

SIGNS == <<"Aries","Taurus","Gemini","Cancer","Leo","Virgo","Libra","Scorpio",
           "Sagittarius","Capricorn","Aquarius","Pisces">>

NAKSHATRAS == <<"Ashwini","Bharani","Krittika","Rohini","Mrigashira","Ardra",
                "Punavasu","Pushya","Ashlesha","Magha","Purva Phalguni",
                "Uttara Phalguni","Hasta","Chitra","Swati","Vishakha",
                "Anuradha","Jyeshta","Mula","Purva Ashadha","Uttara Ashadha",
                "Shravana","Dhanishta","Shatabhisha","Purva Bhadra",
                "Uttara Bhadra","Revati">>

LORDS == <<"Ketu","Venus","Sun","Moon","Mars","Rahu","Jupiter","Saturn","Mercury">>

YEARS == <<7,20,6,10,7,18,16,19,17>>

\* deg_per_nak = 360.0 / 27
deg_per_nak == Circle \div 27

----------------------------------------------------------------------------
(* Python arithmetic *)

\* int(x) of the quotient n/d, d > 0: truncation toward zero
PyInt(n, d) == IF n >= 0 THEN n \div d ELSE -((-n) \div d)

\* A positive longitude that is a double lying exactly on a nakshatra
\* boundary: k * 40/3 degrees is a double only when it is a whole number of
\* degrees, that is a multiple of 40 degrees.
ExactNakBoundary(lon) == lon > 0 /\ lon % (3 * deg_per_nak) = 0

\* lon % deg_per_nak.  The double deg_per_nak exceeds 40/3 by e = 5.9e-16, so
\* at lon = k * 40/3 exactly (k > 0) the quotient floor is k-1 and the result
\* is deg_per_nak - k*e, which at the model's resolution is deg_per_nak.
PyModNak(lon) ==
    IF ExactNakBoundary(lon) THEN deg_per_nak ELSE lon % deg_per_nak

\* int(passed / (deg_per_nak / 4)): (deg_per_nak - k*e) / (deg_per_nak / 4)
\* is 3.9999999999999996, truncated to 3.
PyQuarter(passed) ==
    IF passed = deg_per_nak THEN 3 ELSE passed \div (deg_per_nak \div 4)

\* round(x, 2) of a longitude: hundredths of a degree.  A hundredth is 3
\* units, so the fraction is 0, 1/3 or 2/3 and never a tie.
Round2(x) == (x + 1) \div 3

\* Python list indexing lst[i] with negative indices; "IndexError" outside
PyIndex(lst, i) ==
    IF i >= 0 /\ i < Len(lst) THEN lst[i + 1]
    ELSE IF i < 0 /\ i >= -Len(lst) THEN lst[i + Len(lst) + 1]
    ELSE "IndexError"

----------------------------------------------------------------------------
(* Longitude classifier and panchanga helpers *)

\* get_nakshatra_pada(lon): the nakshatra name and the pada
get_nakshatra_pada(lon) ==
    LET nak_idx == PyInt(lon, deg_per_nak) % 27
        pada == PyQuarter(PyModNak(lon)) + 1
    IN  [nakshatra |-> NAKSHATRAS[nak_idx + 1], pada |-> pada]

\* get_sign_degree(lon): the sign name and the degree in the sign, in
\* hundredths of a degree; SIGNS[sign_idx] raises IndexError out of range
get_sign_degree(lon) ==
    LET sign_idx == lon \div (30 * Degree)
        deg_in_sign == lon % (30 * Degree)
    IN  IF PyIndex(SIGNS, sign_idx) = "IndexError"
        THEN [raise |-> "IndexError"]
        ELSE [sign |-> PyIndex(SIGNS, sign_idx), degree |-> Round2(deg_in_sign)]

\* house_of(lon, lagna_lon) (lines 51-52)
house_of(lon, lagna_lon) ==
    (((lon - lagna_lon + Circle) % Circle) \div (30 * Degree)) + 1

TithiNames == <<"Pratipada","Dwitiya","Tritiya","Chaturthi","Panchami","Shashthi",
                "Saptami","Ashtami","Navami","Dashami","Ekadashi","Dwadashi",
                "Trayodashi","Chaturdashi","Purnima/Amavasya">>

\* the index into names that get_tithi derives from tithi_idx (line 71)
tithi_name_idx(tithi_idx) ==
    IF tithi_idx % 15 # 0 THEN tithi_idx % 15 ELSE 15

\* get_tithi, given the two longitudes the ephemeris returns for jd
get_tithi(moon, sun) ==
    LET diff == (moon - sun + Circle) % Circle
        tithi_idx == diff \div (12 * Degree)
        paksha == IF tithi_idx < 15 THEN "Shukla" ELSE "Krishna"
        idx == tithi_name_idx(tithi_idx)
        name == IF idx = 15 /\ paksha = "Shukla" THEN "Purnima"
                ELSE IF idx = 15 THEN "Amavasya"
                ELSE TithiNames[idx]
    IN  [paksha |-> paksha, name |-> name]

MovableKaranas == <<"Bava","Balava","Kaulava","Taitila","Gara","Vanija","Vishti">>

FixedKaranas == <<"Shakuni","Chatushpada","Naga","Kimstughna">>

\* get_karana_name, given the two longitudes the ephemeris returns for jd
\* (lines 86-91); (k-1) % 7 is 6 for k = 0
get_karana_name(moon, sun) ==
    LET diff == (moon - sun + Circle) % Circle
        k == diff \div (6 * Degree)
    IN  IF k >= 57 THEN "Kimstughna"
        ELSE IF k <= 7 THEN MovableKaranas[((k - 1) % 7) + 1]
        ELSE FixedKaranas[((k - 8) % 4) + 1]

\* UTC offsets of the time zones the model's requests name, in minutes
UtcOffset(tz) == IF tz = "Asia/Kolkata" THEN 330 ELSE 0

\* jd_to_datetime(jd, tz_str): the local civil time, truncated to the minute
\* (seconds are dropped by int((ut - hour) * 60)), as minutes since the
\* model's epoch.  One time unit is 365.242189 * 1440 / 14400 = 36.52
\* minutes, taken as 36.5.
jd_to_datetime(t, tz) == (t * 365) \div 10 + UtcOffset(tz)

\* strftime("%Y-%m-%d %I:%M %p") prints every field of a minute-resolution
\* time, so the string is represented by the printed minute count.
strftime(dt) == ToString(dt)

----------------------------------------------------------------------------
(* Vimshottari dasha engine: get_dasha_details *)

\* Python's None, and a value that is not None
None == << >>
Some(x) == <<x>>

\* lord_idx = int(moon_lon / deg_per_nak) % 9 (lines 104-105); the float
\* quotient of an exact boundary k * 40/3 rounds to k
anchor_lord_idx(moon) == PyInt(moon, deg_per_nak) % 9

\* balance = (1 - passed / deg_per_nak) * YEARS[lord_idx], times the year
\* length (lines 106-109)
anchor_balance(moon) ==
    LET passed == PyModNak(moon)
    IN  ((deg_per_nak - passed) * YEARS[anchor_lord_idx(moon) + 1] * Year)
            \div deg_per_nak

\* m_dur as it would be if the years were divided before being scaled: the
\* integer quotient of any lord's years by 120 is 0
m_dur_truncated(c) == (YEARS[(c % 9) + 1] \div 120) * Year

\* m_dur * 365.242189 for the walk's lord counter c (lines 116-117)
m_dur_of(c) == YEARS[(c % 9) + 1] * Year

\* a_idx as it would be if the Antardashas restarted at index 0
a_idx_restart(c, a) == a % 9

\* a_idx = (cl + a) % 9 (line 130)
a_idx_of(c, a) == (c + a) % 9

\* p_idx as it would be if the Pratyantardashas started from the
\* Mahadasha's lord
p_idx_from_mahadasha(c, a, p) == (c + p) % 9

\* p_idx = (cl + a + p) % 9 (line 151)
p_idx_of(c, a, p) == (c + a + p) % 9

\* a_years = m_dur * YEARS[a_idx] / 120 and p_years = a_years * YEARS[p_idx]
\* / 120, times the year length (lines 132, 153)
sub_years(parent, idx) == (parent * YEARS[idx + 1]) \div 120

\* the Pratyantardasha loop (lines 149-163), from iteration p with cursor jd_p
RECURSIVE praty_loop(_, _, _, _, _, _, _)
praty_loop(p, jd_p, c, a, a_years, now, tz) ==
    IF p = 9 THEN << >>
    ELSE LET pi == p_idx_of(c, a, p)
             p_years == sub_years(a_years, pi)
             p_end_jd == jd_p + p_years
             is_curr_p == jd_p <= now /\ now < p_end_jd
         IN  << [lord |-> LORDS[pi + 1],
                 current |-> is_curr_p,
                 startDate |-> strftime(jd_to_datetime(jd_p, tz)),
                 endDate |-> strftime(jd_to_datetime(p_end_jd, tz)),
                 start_jd |-> jd_p,
                 end_jd |-> p_end_jd] >>
             \o praty_loop(p + 1, p_end_jd, c, a, a_years, now, tz)

\* current_praty (line 167): the lord of the first entry marked "(Current)"
RECURSIVE current_praty_of(_)
current_praty_of(lst) ==
    IF lst = << >> THEN "None"
    ELSE IF Head(lst).current THEN Head(lst).lord
    ELSE current_praty_of(Tail(lst))

\* the Antardasha loop (lines 129-165), from iteration a with the loop's
\* variables jd_a, antar_list, current_antar, current_a_start, current_a_end
\* and praty_list; after the last iteration, the entries of the returned
\* dictionary that are made from them (lines 167, 173-178)
RECURSIVE antar_loop(_, _, _, _, _, _, _, _, _, _, _)
antar_loop(a, jd_a, antar_list, current_antar, current_a_start, current_a_end, praty_list, c, m_dur, now, tz) ==
    IF a = 9
    THEN [currentAntardasha |-> current_antar,
          currentAntardashaStart |->
              IF current_a_start # None
              THEN strftime(current_a_start[1]) ELSE "N/A",
          currentAntardashaEnd |->
              IF current_a_end # None
              THEN strftime(current_a_end[1]) ELSE "N/A",
          antardashaList |-> antar_list,
          currentPratyantardasha |-> current_praty_of(praty_list),
          pratyantardashaList |-> praty_list]
    ELSE LET ai == a_idx_of(c, a)
             a_years == sub_years(m_dur, ai)
             a_start_dt == jd_to_datetime(jd_a, tz)
             a_end_jd == jd_a + a_years
             a_end_dt == jd_to_datetime(a_end_jd, tz)
             is_current == jd_a <= now /\ now < a_end_jd
             entry == [lord |-> LORDS[ai + 1],
                       current |-> is_current,
                       startDate |-> strftime(a_start_dt),
                       endDate |-> strftime(a_end_dt),
                       start_jd |-> jd_a,
                       end_jd |-> a_end_jd]
         IN  antar_loop(a + 1,
                 a_end_jd,
                 Append(antar_list, entry),
                 IF is_current THEN LORDS[ai + 1] ELSE current_antar,
                 IF is_current THEN Some(a_start_dt) ELSE current_a_start,
                 IF is_current THEN Some(a_end_dt) ELSE current_a_end,
                 IF is_current
                 THEN praty_list \o praty_loop(0, jd_a, c, a, a_years, now, tz)
                 ELSE praty_list,
                 c, m_dur, now, tz)

\* the dictionary returned once the walk has stopped at cursor t, counter c
\* (lines 119-179)
dasha_return(t, c, now, tz) ==
    LET m_dur == m_dur_of(c)
        m_end_jd == t + m_dur
    IN  [mahadasha |-> LORDS[(c % 9) + 1],
         mahadashaStart |-> strftime(jd_to_datetime(t, tz)),
         mahadashaEnd |-> strftime(jd_to_datetime(m_end_jd, tz)),
         m_start_jd |-> t,
         m_end_jd |-> m_end_jd]
        @@ antar_loop(0, t, << >>, "None", None, None, << >>,
                      c, m_dur, now, tz)

----------------------------------------------------------------------------
(* Inputs and bounds *)

\* how many times the clock may advance
MaxTicks == 2

\* birth moments (data.dateOfBirth, data.timeOfBirth, converted to UTC)
BirthInputs == {0, 3 * Year}

\* data.timezone values; "2" names no zone
TimezoneInputs == {"UTC", "Asia/Kolkata", "2"}
KnownZones == {"UTC", "Asia/Kolkata"}

\* the sidereal correction swe.get_ayanamsa_ut returns (about 24 degrees)
Ayanamsa == 24 * Degree

\* tropical Moon longitudes swe.calc_ut returns: sidereal 0 (Ashwini start),
\* 40 degrees (Rohini start, an exact double), 6.67 (inside Ashwini), 20
\* (inside Bharani), 356.67 (inside Revati) and 342.67 (inside Uttara Bhadra)
RawMoonInputs == {Ayanamsa, Ayanamsa + 12000, Ayanamsa + 2000,
                  Ayanamsa + 6000, 107000 + Ayanamsa - Circle, 2000}

\* the instants the clock shows when the service starts
NowInputs == {1 * Year, 14 * Year, 10 * Year + 5600, 36 * Year}

\* longitudes handed to the classifiers: odd multiples of 5 degrees from
\* -405 to 405 (none on a pada boundary), the exact nakshatra boundaries
\* 0, 40, ..., 400 degrees, and 95.5 degrees
LonInputs == {(2 * j + 1) * 5 * Degree : j \in -41..40}
             \cup {k * 40 * Degree : k \in 0..10}
             \cup {28650}

\* body longitudes handed to house_of: 5, 15, 25, ... 355 degrees
HouseLonInputs == {(2 * j + 1) * 5 * Degree : j \in 0..35}

\* ascendant longitudes handed to house_of: 0, 15 (mid Aries), 30, 100.5
\* (Cancer) and 359 degrees (end of Pisces)
LagnaInputs == {0, 15 * Degree, 30 * Degree, 30150, 359 * Degree}

\* Sun and Moon longitudes the ephemeris returns to get_tithi and
\* get_karana_name
TithiSunInputs == {10 * Degree, 350 * Degree}
TithiMoonInputs == {k * 6 * Degree : k \in 0..59} \cup {Circle - 1}

----------------------------------------------------------------------------
(* The request handler full_vedic_chart *)

NoInfo == [mahadasha |-> "unset"]
NoResult == [pending |-> TRUE]
NoRet == [unset |-> TRUE]

dashaVars == <<now_jd, lord_idx, balance, jd, cl>>
pureVars == <<fn, args, ret>>

\* str(KeyError(k)) is the repr of the key
KeyErrorStr(k) == "'" \o k \o "'"

\* the except clause (lines 542-544): every exception is answered with the
\* same error dictionary, its message in "details"
Raise(kind, msg) ==
    /\ result' = [error |-> "Internal server error", details |-> msg,
                  status |-> 500]
    /\ failure' = kind
    /\ responses' = responses \cup {<<kind, result'>>}
    /\ pc' = "done"

Init ==
    /\ pc = "idle"
    /\ clock \in NowInputs
    /\ ticks = 0
    /\ tz_str = "UTC"
    /\ jd_birth = 0
    /\ moon_lon = 0
    /\ jd_now = 0
    /\ now_jd = 0
    /\ lord_idx = 0
    /\ balance = 0
    /\ jd = 0
    /\ cl = 0
    /\ dasha_info = NoInfo
    /\ failure = "none"
    /\ result = NoResult
    /\ responses = {}
    /\ fn = "none"
    /\ args = << >>
    /\ ret = NoRet

\* the clock advances while requests are served
Tick ==
    /\ pc # "pure"
    /\ ticks < MaxTicks
    /\ ticks' = ticks + 1
    /\ clock' = clock + 1
    /\ UNCHANGED <<pc, tz_str, jd_birth, moon_lon, jd_now, dashaVars,
                   dasha_info, failure, result, responses, pureVars>>

\* a request arrives; lines 434-439: strptime, pytz.timezone, julday
ParseInput ==
    /\ pc \in {"idle", "done"}
    /\ \E wf \in BOOLEAN, b \in BirthInputs, tz \in TimezoneInputs :
        /\ tz_str' = tz
        /\ moon_lon' = 0 /\ jd_now' = 0 /\ now_jd' = 0 /\ lord_idx' = 0
        /\ balance' = 0 /\ jd' = 0 /\ cl' = 0 /\ dasha_info' = NoInfo
        /\ IF ~wf
           THEN /\ jd_birth' = 0
                /\ Raise("InvalidInput", "time data does not match format")
           ELSE IF tz \notin KnownZones
           THEN /\ jd_birth' = 0
                /\ Raise("InvalidInput", KeyErrorStr(tz))
           ELSE /\ jd_birth' = b
                /\ failure' = "none"
                /\ result' = NoResult
                /\ pc' = "birth_eph"
                /\ UNCHANGED responses
    /\ UNCHANGED <<clock, ticks, pureVars>>

\* lines 441-449: ayanamsa, natal longitudes and house cusps from the
\* ephemeris, which either returns values or raises
BirthEphemeris ==
    /\ pc = "birth_eph"
    /\ \/ \E raw \in RawMoonInputs :
            /\ moon_lon' = (raw - Ayanamsa) % Circle
            /\ pc' = "sample_now"
            /\ UNCHANGED <<failure, result, responses>>
       \/ /\ Raise("EphemerisFailure", "swisseph error")
          /\ UNCHANGED moon_lon
    /\ UNCHANGED <<clock, ticks, tz_str, jd_birth, jd_now, dashaVars, dasha_info,
                   pureVars>>

\* lines 451-455: the handler reads the clock and asks the ephemeris for the
\* current longitudes at jd_now
SampleNow ==
    /\ pc = "sample_now"
    /\ jd_now' = clock
    /\ \/ /\ pc' = "dasha_start"
          /\ UNCHANGED <<failure, result, responses>>
       \/ Raise("EphemerisFailure", "swisseph error")
    /\ UNCHANGED <<clock, ticks, tz_str, jd_birth, moon_lon, dashaVars, dasha_info,
                   pureVars>>

\* get_dasha_details, lines 103-113: the anchor, and its own clock reading
DashaStart ==
    /\ pc = "dasha_start"
    /\ lord_idx' = anchor_lord_idx(moon_lon)
    /\ balance' = anchor_balance(moon_lon)
    /\ jd' = jd_birth + anchor_balance(moon_lon)
    /\ now_jd' = clock
    /\ cl' = anchor_lord_idx(moon_lon)
    /\ pc' = "walk"
    /\ UNCHANGED <<clock, ticks, tz_str, jd_birth, moon_lon, jd_now, dasha_info,
                   failure, result, responses, pureVars>>

\* get_dasha_details, lines 114-118 and 181-182: one step of the walk
DashaWalk ==
    /\ pc = "walk"
    /\ ~(jd + m_dur_of(cl) >= now_jd)
    /\ jd' = jd + m_dur_of(cl)
    /\ cl' = cl + 1
    /\ UNCHANGED <<pc, clock, ticks, tz_str, jd_birth, moon_lon, jd_now, now_jd,
                   lord_idx, balance, dasha_info, failure, result, responses,
                   pureVars>>

\* get_dasha_details, lines 118-179: the walk stops and the function returns
DashaReturn ==
    /\ pc = "walk"
    /\ jd + m_dur_of(cl) >= now_jd
    /\ dasha_info' = dasha_return(jd, cl, now_jd, tz_str)
    /\ pc' = "sunrise"
    /\ UNCHANGED <<clock, ticks, tz_str, jd_birth, moon_lon, jd_now, dashaVars,
                   failure, result, responses, pureVars>>

\* lines 459-460: sunrise and sunset at birth and at jd_now
Sunrise ==
    /\ pc = "sunrise"
    /\ \/ /\ pc' = "yogas"
          /\ UNCHANGED <<failure, result, responses>>
       \/ Raise("EphemerisFailure", "swisseph error")
    /\ UNCHANGED <<clock, ticks, tz_str, jd_birth, moon_lon, jd_now, dashaVars,
                   dasha_info, pureVars>>

\* line 462: detect_yogas builds h with the nine body names as keys and
\* reaches h["2"] at line 221, which raises KeyError('2') for every chart;
\* lines 464-540 are never executed
DetectYogas ==
    /\ pc = "yogas"
    /\ Raise("Unexpected", KeyErrorStr("2"))
    /\ UNCHANGED <<clock, ticks, tz_str, jd_birth, moon_lon, jd_now, dashaVars,
                   dasha_info, pureVars>>

Next ==
    \/ Tick
    \/ ParseInput
    \/ BirthEphemeris
    \/ SampleNow
    \/ DashaStart
    \/ DashaWalk
    \/ DashaReturn
    \/ Sunrise
    \/ DetectYogas

Spec == Init /\ [][Next]_vars

\* get_dasha_details called on its own: full_vedic_chart has reached line
\* 457 with a birth moment, a Moon longitude and a time zone
InitWalk ==
    /\ pc = "dasha_start"
    /\ clock \in NowInputs
    /\ ticks = 0
    /\ tz_str \in KnownZones
    /\ jd_birth \in BirthInputs
    /\ moon_lon \in {(raw - Ayanamsa) % Circle : raw \in RawMoonInputs}
    /\ jd_now = clock
    /\ now_jd = 0
    /\ lord_idx = 0
    /\ balance = 0
    /\ jd = 0
    /\ cl = 0
    /\ dasha_info = NoInfo
    /\ failure = "none"
    /\ result = NoResult
    /\ responses = {}
    /\ fn = "none"
    /\ args = << >>
    /\ ret = NoRet

NextWalk ==
    \/ Tick
    \/ DashaStart
    \/ DashaWalk
    \/ DashaReturn

\* get_dasha_details runs synchronously inside the handler: a walk step or
\* the return that is enabled is eventually executed
SpecFair ==
    InitWalk /\ [][NextWalk]_vars /\ WF_vars(DashaWalk) /\ WF_vars(DashaReturn)

----------------------------------------------------------------------------
(* The classifiers and get_tithi applied on their own *)

InitPure ==
    /\ pc = "pure"
    /\ clock = 0
    /\ ticks = 0
    /\ tz_str = "UTC"
    /\ jd_birth = 0
    /\ moon_lon = 0
    /\ jd_now = 0
    /\ now_jd = 0
    /\ lord_idx = 0
    /\ balance = 0
    /\ jd = 0
    /\ cl = 0
    /\ dasha_info = NoInfo
    /\ failure = "none"
    /\ result = NoResult
    /\ responses = {}
    /\ fn = "none"
    /\ args = << >>
    /\ ret = NoRet

flowVars == <<pc, clock, ticks, tz_str, jd_birth, moon_lon, jd_now, dashaVars,
              dasha_info, failure, result, responses>>

CallGetTithi ==
    /\ pc = "pure"
    /\ \E moon \in TithiMoonInputs, sun \in TithiSunInputs :
        /\ fn' = "get_tithi"
        /\ args' = <<moon, sun>>
        /\ ret' = get_tithi(moon, sun)
    /\ UNCHANGED flowVars

CallGetSignDegree ==
    /\ pc = "pure"
    /\ \E lon \in LonInputs :
        /\ fn' = "get_sign_degree"
        /\ args' = <<lon>>
        /\ ret' = get_sign_degree(lon)
    /\ UNCHANGED flowVars

CallGetNakshatraPada ==
    /\ pc = "pure"
    /\ \E lon \in LonInputs :
        /\ fn' = "get_nakshatra_pada"
        /\ args' = <<lon>>
        /\ ret' = get_nakshatra_pada(lon)
    /\ UNCHANGED flowVars

CallGetKaranaName ==
    /\ pc = "pure"
    /\ \E moon \in TithiMoonInputs, sun \in TithiSunInputs :
        /\ fn' = "get_karana_name"
        /\ args' = <<moon, sun>>
        /\ ret' = [name |-> get_karana_name(moon, sun)]
    /\ UNCHANGED flowVars

CallHouseOf ==
    /\ pc = "pure"
    /\ \E lon \in HouseLonInputs, lagna_lon \in LagnaInputs :
        /\ fn' = "house_of"
        /\ args' = <<lon, lagna_lon>>
        /\ ret' = [house |-> house_of(lon, lagna_lon)]
    /\ UNCHANGED flowVars

NextPure ==
    \/ CallGetTithi
    \/ CallGetSignDegree
    \/ CallGetNakshatraPada
    \/ CallGetKaranaName
    \/ CallHouseOf

SpecPure == InitPure /\ [][NextPure]_vars

----------------------------------------------------------------------------
(* Properties *)

\* get_dasha_details has returned for the request at hand
DashaReturned == dasha_info # NoInfo

\* get_dasha_details has computed its anchor for the request at hand
DashaAnchored == pc = "walk" \/ DashaReturned

\* position of a lord in LORDS, counted from 0
LordIndex(name) == (CHOOSE i \in 1..9 : LORDS[i] = name) - 1

\* the n-th lord, n in 0..8, of the cyclic sequence that starts at `first`
CyclicLord(first, n) == LORDS[((LordIndex(first) + n) % 9) + 1]

\* a list of periods is contiguous, in jd and as printed
Contiguous(lst) ==
    \A i \in 1..(Len(lst) - 1) :
        /\ lst[i].end_jd = lst[i + 1].start_jd
        /\ lst[i].endDate = lst[i + 1].startDate

RECURSIVE SumDurations(_)
SumDurations(lst) ==
    IF lst = << >> THEN 0
    ELSE (Head(lst).end_jd - Head(lst).start_jd) + SumDurations(Tail(lst))

\* the entries of the Antardasha list whose [start, end) contains now
ActiveAntar ==
    {i \in 1..Len(dasha_info.antardashaList) :
        /\ dasha_info.antardashaList[i].start_jd <= now_jd
        /\ now_jd < dasha_info.antardashaList[i].end_jd}

\* C1: the 9 Antardasha periods of the selected Mahadasha are listed in cyclic
\* lord order starting from the Mahadasha's own lord, are contiguous, begin
\* at the Mahadasha's start, and their durations sum to the Mahadasha's
\* duration, so that the last one ends at the Mahadasha's end.
C1_AntardashaPartition ==
    DashaReturned =>
        LET lst == dasha_info.antardashaList
        IN  /\ Len(lst) = 9
            /\ \A i \in 1..9 : lst[i].lord = CyclicLord(dasha_info.mahadasha, i - 1)
            /\ Contiguous(lst)
            /\ lst[1].start_jd = dasha_info.m_start_jd
            /\ lst[1].startDate = dasha_info.mahadashaStart
            /\ SumDurations(lst) = dasha_info.m_end_jd - dasha_info.m_start_jd
            /\ lst[9].end_jd = dasha_info.m_end_jd
            /\ lst[9].endDate = dasha_info.mahadashaEnd

\* C1 witness: the walk advanced past the anchor lord, the selected Mahadasha
\* is not Ketu's (index 0) and one of its Antardashas is active.
C1_Witness ==
    /\ DashaReturned
    /\ cl > lord_idx
    /\ dasha_info.mahadasha # "Ketu"
    /\ dasha_info.currentAntardasha # "None"
    /\ Len(dasha_info.antardashaList) = 9

\* C2: whenever an Antardasha is active, the 9 Pratyantardasha periods inside
\* it are listed in cyclic lord order starting from the active Antardasha's
\* lord, each lasts aYears * YEARS[subSubLord] / 120, they are contiguous,
\* start at the Antardasha's start and sum to the Antardasha's duration.
C2_PratyantardashaPartition ==
    (DashaReturned /\ ActiveAntar # {}) =>
        LET lst == dasha_info.pratyantardashaList
            act == dasha_info.antardashaList[CHOOSE i \in ActiveAntar : TRUE]
            a_dur == act.end_jd - act.start_jd
        IN  /\ Cardinality(ActiveAntar) = 1
            /\ dasha_info.currentAntardasha = act.lord
            /\ Len(lst) = 9
            /\ \A i \in 1..9 :
                /\ lst[i].lord = CyclicLord(act.lord, i - 1)
                /\ (lst[i].end_jd - lst[i].start_jd) * 120
                       = a_dur * YEARS[LordIndex(lst[i].lord) + 1]
            /\ Contiguous(lst)
            /\ lst[1].start_jd = act.start_jd
            /\ SumDurations(lst) = a_dur
            /\ lst[9].end_jd = act.end_jd

\* C2 witness: the active Antardasha is neither the first of its Mahadasha
\* nor Ketu's, and its Pratyantardashas were generated.
C2_Witness ==
    /\ DashaReturned
    /\ ActiveAntar # {}
    /\ 1 \notin ActiveAntar
    /\ dasha_info.currentAntardasha \notin {"Ketu", dasha_info.mahadasha}
    /\ Len(dasha_info.pratyantardashaList) = 9

\* C3: when no Antardasha (or Pratyantardasha) period contains now, the last
\* of the 9 sub-periods is reported as the active one, never a "None" lord
\* with "N/A" dates.
C3_FallbackToLast ==
    (DashaReturned /\ ActiveAntar = {}) =>
        /\ dasha_info.currentAntardasha = dasha_info.antardashaList[9].lord
        /\ dasha_info.currentAntardashaStart = dasha_info.antardashaList[9].startDate
        /\ dasha_info.currentAntardashaEnd = dasha_info.antardashaList[9].endDate
        /\ dasha_info.currentAntardasha # "None"
        /\ dasha_info.currentAntardashaStart # "N/A"
        /\ dasha_info.currentPratyantardasha # "None"

\* C4: what the claim says get_tithi returns: the bright fortnight below
\* tithiIndex 15, the dark one from 15 on, and the ((tithiIndex mod 15) + 1)-th
\* name, the 15th being Purnima (bright) or Amavasya (dark).
ClaimedTithi(moon, sun) ==
    LET diff == (moon - sun + Circle) % Circle
        tithiIndex == diff \div (12 * Degree)
        n == (tithiIndex % 15) + 1
    IN  [paksha |-> IF tithiIndex < 15 THEN "Shukla" ELSE "Krishna",
         name |-> IF n = 15
                  THEN (IF tithiIndex < 15 THEN "Purnima" ELSE "Amavasya")
                  ELSE TithiNames[n]]

\* C4: for every Sun and Moon longitude get_tithi returns the fortnight and
\* the ((tithiIndex mod 15) + 1)-th name: diff = 90 gives bright Ashtami,
\* diff = 0 the first bright name, diff just under 360 dark Amavasya.
C4_TithiName ==
    fn = "get_tithi" => ret = ClaimedTithi(args[1], args[2])

\* C5: for a Moon longitude exactly on a nakshatra boundary the anchor is the
\* lord of the nakshatra that begins there and balanceYears is that lord's
\* full duration; longitude 0 gives Ketu, Ashwini, pada 1 and 7 years.
C5_BoundaryBalance ==
    (DashaAnchored /\ moon_lon % deg_per_nak = 0) =>
        /\ lord_idx = (moon_lon \div deg_per_nak) % 9
        /\ balance = YEARS[lord_idx + 1] * Year
        /\ moon_lon = 0 =>
            /\ LORDS[lord_idx + 1] = "Ketu"
            /\ balance = 7 * Year
            /\ get_nakshatra_pada(moon_lon) = [nakshatra |-> "Ashwini", pada |-> 1]

\* C6: a well-formed request for which the ephemeris returns values completes
\* with the structured report, not with an error result.
C6_ReportReturned ==
    (pc = "done" /\ failure \notin {"InvalidInput", "EphemerisFailure"}) =>
        /\ "error" \notin DOMAIN result
        /\ "currentDasha" \in DOMAIN result

\* C7: the result of a failed request identifies its failure category: results
\* of failures of different categories differ, and none carries a report.
C7_FailureCategories ==
    \A p \in responses, q \in responses :
        /\ p[1] # q[1] => p[2] # q[2]
        /\ "currentDasha" \notin DOMAIN p[2]

\* the classification of a longitude reduced modulo 360
ReducedSign(lon) ==
    LET r == lon % Circle
    IN  [sign |-> SIGNS[(r \div (30 * Degree)) + 1],
         degree |-> Round2(r % (30 * Degree))]

ReducedNakshatra(lon) ==
    LET r == lon % Circle
    IN  [nakshatra |-> NAKSHATRAS[(r \div deg_per_nak) + 1],
         pada |-> ((r % deg_per_nak) \div (deg_per_nak \div 4)) + 1]

\* C8: for every longitude, in range or not, get_sign_degree and
\* get_nakshatra_pada either fail or return the classification of the
\* longitude reduced modulo 360 (so L and L + 360k classify alike, and 95.5
\* degrees gives Cancer, 5.5).
C8_ClassifyReduced ==
    /\ fn = "get_sign_degree" =>
           (ret = [raise |-> "IndexError"] \/ ret = ReducedSign(args[1]))
    /\ fn = "get_nakshatra_pada" => ret = ReducedNakshatra(args[1])
    /\ (fn = "get_sign_degree" /\ args = <<28650>>) =>
           ret = [sign |-> "Cancer", degree |-> 550]

\* C9: for now not earlier than the birth, the Mahadasha the walk selects
\* contains now: it starts at or before now and ends at or after now.
C9_MahadashaContainsNow ==
    (DashaReturned /\ now_jd >= jd_birth) =>
        /\ dasha_info.m_start_jd <= now_jd
        /\ now_jd <= dasha_info.m_end_jd

\* C10: within one request now is sampled once; the dasha engine's now is the
\* handler's now, whatever the clock does while the request runs.
C10_SingleNow ==
    DashaAnchored => now_jd = jd_now

\* the karana index k = floor(((moon - sun + 360) mod 360) / 6) of a call
KaranaK(moon, sun) == ((moon - sun + Circle) % Circle) \div (6 * Degree)

\* the names in a tuple
NamesOf(lst) == {lst[i] : i \in 1..Len(lst)}

\* C11: get_karana_name returns a fixed name (Shakuni, Chatushpada, Naga,
\* Kimstughna) only at the boundaries of the 60-unit cycle (k = 0 or k >= 57);
\* for every interior k in 1..56 it returns the movable names Bava, Balava,
\* Kaulava, Taitila, Gara, Vanija, Vishti, repeating in that order.
C11_KaranaFixedOnlyAtBoundaries ==
    fn = "get_karana_name" =>
        LET k == KaranaK(args[1], args[2])
        IN  /\ ret.name \in NamesOf(FixedKaranas) => (k = 0 \/ k >= 57)
            /\ k \in 1..56 => ret.name = MovableKaranas[((k - 1) % 7) + 1]

\* the index of the sign that contains a longitude in [0, 360)
SignIndex(lon) == lon \div (30 * Degree)

\* C12: for body and ascendant longitudes in [0, 360) house_of returns a house
\* in 1..12 counted by whole signs from the ascendant's sign: a body in the
\* ascendant's sign is in house 1, a body n signs further on in house n + 1.
C12_WholeSignHouses ==
    fn = "house_of" =>
        /\ ret.house \in 1..12
        /\ ret.house = ((SignIndex(args[1]) - SignIndex(args[2])) % 12) + 1

\* C13: the forward walk of get_dasha_details terminates: every step strictly
\* increases the cursor, and a walk that has started eventually returns with
\* a Mahadasha whose end is at or after now.
C13_WalkTerminates ==
    /\ [][(pc = "walk" /\ pc' = "walk" /\ cl' # cl) => jd' > jd]_vars
    /\ [](DashaReturned => dasha_info.m_end_jd >= now_jd)
    /\ (pc = "walk") ~> DashaReturned

\* C13 witness: the walk took at least two steps past the anchor lord and
\* the function returned.
C13_Witness ==
    /\ DashaReturned
    /\ cl >= lord_idx + 2
    /\ dasha_info.m_start_jd > jd_birth + balance

====
